---- MODULE Spec2Model ----
(***************************************************************************)
(* FetchResource (src/src/resources/fetch/FetchResource.ts): a resource    *)
(* object that builds HTTP requests from stored defaults and per-call      *)
(* options, hands them to a fetch client and unwraps the response.         *)
(*                                                                         *)
(* Strings are sequences of one-character strings, so that the regular     *)
(* expression replace, encodeURIComponent and join are computed character  *)
(* by character.  A JavaScript value that may be missing is a record with  *)
(* a presence flag.                                                        *)
(***************************************************************************)
EXTENDS Integers, Sequences, FiniteSets, TLC

VARIABLES baseUrl, defaultOptions, call, last, basePathSet

vars == <<baseUrl, defaultOptions, call, last, basePathSet>>

\* ---------------------------------------------------------------- bounds
\* Longest pathParts list handed to resolveDestination.
MaxParts == 2
\* Most keys of a params object handed to getQueryString.
MaxParams == 2
\* Longest array value of a query parameter.
MaxArrayLen == 2

\* --------------------------------------------------------------- strings
RECURSIVE Flatten(_)
\* The concatenation of a sequence of strings.
Flatten(ss) == IF ss = <<>> THEN <<>> ELSE Head(ss) \o Flatten(Tail(ss))

RECURSIVE Join(_, _)
\* Array.prototype.join: the elements with sep between neighbours.
Join(ss, sep) ==
  IF ss = <<>> THEN <<>>
  ELSE IF Len(ss) = 1 THEN Head(ss)
  ELSE Head(ss) \o sep \o Join(Tail(ss), sep)

\* Array.prototype.filter(Boolean) on strings: the empty string is falsy.
FilterBoolean(ss) == SelectSeq(ss, LAMBDA s : s # <<>>)

\* Characters encodeURIComponent leaves alone: the lower-case letters, the
\* digits and - _ . ! ~ * ' ( ) of the model's alphabet.
Unreserved ==
  {"a", "b", "c", "d", "e", "f", "g", "h", "i", "j", "k", "l", "m", "n", "o",
   "p", "q", "r", "s", "t", "u", "v", "w", "x", "y", "z",
   "0", "1", "2", "3", "4", "5", "6", "7", "8", "9",
   "-", "_", ".", "!", "~", "*", "'", "(", ")"}

\* encodeURIComponent of one character: unreserved characters stay, the
\* others become the percent escape of their byte.
EncodeChar(c) ==
  IF c \in Unreserved THEN <<c>>
  ELSE CASE c = " " -> <<"%", "2", "0">>
         [] c = "&" -> <<"%", "2", "6">>
         [] c = "=" -> <<"%", "3", "D">>
         [] c = "," -> <<"%", "2", "C">>
         [] c = "/" -> <<"%", "2", "F">>
         [] c = ":" -> <<"%", "3", "A">>
         [] c = "?" -> <<"%", "3", "F">>
         [] c = "[" -> <<"%", "5", "B">>
         [] c = "]" -> <<"%", "5", "D">>
         [] c = "%" -> <<"%", "2", "5">>

RECURSIVE encodeURIComponent(_)
encodeURIComponent(s) ==
  IF s = <<>> THEN <<>> ELSE EncodeChar(Head(s)) \o encodeURIComponent(Tail(s))

\* The end of the run of "/" that starts at position i of s (i itself when
\* s[i] is no slash): the greedy \/+ of the regular expression.
RECURSIVE SlashRunEnd(_, _)
SlashRunEnd(s, i) ==
  IF i <= Len(s) /\ s[i] = "/" THEN SlashRunEnd(s, i + 1) ELSE i

\* s.replace(/([^:]\/)\/+/g, '$1') from position i on: scanning left to right,
\* a character other than ":" followed by two or more slashes is replaced by
\* that character and one slash, and the scan goes on after the match.
RECURSIVE CollapseFrom(_, _)
CollapseFrom(s, i) ==
  IF i > Len(s) THEN <<>>
  ELSE IF /\ s[i] # ":"
          /\ i + 2 <= Len(s)
          /\ s[i + 1] = "/"
          /\ s[i + 2] = "/"
       THEN <<s[i], "/">> \o CollapseFrom(s, SlashRunEnd(s, i + 2))
       ELSE <<s[i]>> \o CollapseFrom(s, i + 1)

CollapseSlashes(s) == CollapseFrom(s, 1)

\* ----------------------------------------------------- resolveDestination
RECURSIVE ReduceParts(_, _)
\* pathParts.reduce((resultUrl, routePart) => `${resultUrl}/${routePart}`, acc)
ReduceParts(pathParts, acc) ==
  IF pathParts = <<>> THEN acc
  ELSE ReduceParts(Tail(pathParts), acc \o <<"/">> \o Head(pathParts))

resolveDestination(pathParts, basePath) ==
  CollapseSlashes(ReduceParts(pathParts, basePath))

\* ---------------------------------------------------------------- options
\* A FetchOptions object.  A property that is not set is "absent" (headers
\* and queryParams: has = FALSE).  given = FALSE is the options argument left
\* out (undefined); the stored defaults always have given = TRUE.
\* headers: map is the set of <<name, value>> pairs of the headers object.
NoHeaders == [has |-> FALSE, map |-> {}]

NoQueryParams == [has |-> FALSE, params |-> <<>>]

NoOptions ==
  [given |-> FALSE, headers |-> NoHeaders, contentType |-> "absent",
   trailingSlash |-> "absent", queryParamsDecodeMode |-> "absent",
   timeOffset |-> "absent", canSendRequest |-> "absent",
   handleError |-> "absent", queryParams |-> NoQueryParams]

EmptyOptions == [NoOptions EXCEPT !.given = TRUE]

\* { ...defaults, ...options }: a shallow copy in which every property the
\* per-call object has replaces the default's, headers as a whole.
SpreadOptions(defaults, options) ==
  IF ~options.given THEN defaults
  ELSE [given |-> TRUE,
        headers |-> IF options.headers.has THEN options.headers
                    ELSE defaults.headers,
        contentType |-> IF options.contentType # "absent"
                        THEN options.contentType ELSE defaults.contentType,
        trailingSlash |-> IF options.trailingSlash # "absent"
                          THEN options.trailingSlash
                          ELSE defaults.trailingSlash,
        queryParamsDecodeMode |->
          IF options.queryParamsDecodeMode # "absent"
          THEN options.queryParamsDecodeMode
          ELSE defaults.queryParamsDecodeMode,
        timeOffset |-> IF options.timeOffset # "absent"
                       THEN options.timeOffset ELSE defaults.timeOffset,
        canSendRequest |-> IF options.canSendRequest # "absent"
                           THEN options.canSendRequest
                           ELSE defaults.canSendRequest,
        handleError |-> IF options.handleError # "absent"
                        THEN options.handleError ELSE defaults.handleError,
        queryParams |-> IF options.queryParams.has THEN options.queryParams
                        ELSE defaults.queryParams]

resolveRequestOptions(defaults, options) == SpreadOptions(defaults, options)

\* ----------------------------------------------------------- getQueryString
\* A parameter value: null, undefined, a scalar (s is String(value)) or an
\* array of scalars (a holds String(element) for each element).
NullValue == [t |-> "null", s |-> <<>>, a |-> <<>>]

UndefValue == [t |-> "undefined", s |-> <<>>, a |-> <<>>]

Scalar(s) == [t |-> "scalar", s |-> s, a |-> <<>>]

ArrayOf(a) == [t |-> "array", s |-> <<>>, a |-> a]

RECURSIVE NatToStr(_)
NatToStr(n) ==
  LET d == <<"0", "1", "2", "3", "4", "5", "6", "7", "8", "9">>
  IN  IF n < 10 THEN <<d[n + 1]>> ELSE NatToStr(n \div 10) \o <<d[(n % 10) + 1]>>

\* String(n) for an integer.
IntToStr(n) == IF n < 0 THEN <<"-">> \o NatToStr(0 - n) ELSE NatToStr(n)

\* params[key] = value on an object whose own keys, in Object.keys order, are
\* those of the sequence: an existing key keeps its place, a new one is last.
SetKey(params, key, value) ==
  IF \E i \in 1..Len(params) : params[i].k = key
  THEN [i \in 1..Len(params) |->
          IF params[i].k = key THEN [k |-> key, v |-> value] ELSE params[i]]
  ELSE Append(params, [k |-> key, v |-> value])

timeoffsetKey == <<"t", "i", "m", "e", "o", "f", "f", "s", "e", "t">>

\* EncodeArrayParam with the switch's default falling to the 'array' case:
\* only the mode 'comma' is comma-joined.
EncodeArrayParamDefaultArray(k, a, mode) ==
  IF mode # "comma"
  THEN Join([i \in 1..Len(a) |->
               encodeURIComponent(k) \o <<"[", "]", "=">>
                 \o encodeURIComponent(a[i])], <<"&">>)
  ELSE encodeURIComponent(k) \o <<"=">> \o Join(a, <<",">>)

\* The switch on queryParamsDecodeMode for an array value: 'array' gives one
\* encoded k[]=v per element joined by "&"; 'comma' and every other mode give
\* the encoded key, "=" and the elements joined by "," as they are.
EncodeArrayParam(k, a, mode) ==
  IF mode = "array"
  THEN Join([i \in 1..Len(a) |->
               encodeURIComponent(k) \o <<"[", "]", "=">>
                 \o encodeURIComponent(a[i])], <<"&">>)
  ELSE encodeURIComponent(k) \o <<"=">> \o Join(a, <<",">>)

\* The callback of .map((k) => ...): the empty string stands for undefined,
\* which filter(Boolean) drops just the same.
EncodeParam(p, mode) ==
  IF p.v.t = "array" THEN EncodeArrayParam(p.k, p.v.a, mode)
  ELSE IF p.v.t = "scalar"
       THEN encodeURIComponent(p.k) \o <<"=">> \o encodeURIComponent(p.v.s)
       ELSE <<>>

\* getQueryString(params, options) on a resource whose stored options are
\* defaults, tz being what new Date().getTimezoneOffset() returns.
getQueryString(params, options, defaults, tz) ==
  LET merged == SpreadOptions(defaults, options)
      withOffset == IF merged.timeOffset = "true"
                    THEN SetKey(params, timeoffsetKey, Scalar(IntToStr(tz * (-1))))
                    ELSE params
  IN  Join(FilterBoolean([i \in 1..Len(withOffset) |->
             EncodeParam(withOffset[i], merged.queryParamsDecodeMode)]), <<"&">>)

\* ------------------------------------------------------------ request body
\* A body value: a string, a Date (s is its toISOString()), an object or an
\* array (kv: the own properties in order; an array's keys are its indices).
\* The body argument itself may also be undefined or null.
StrV(s) == [t |-> "str", s |-> s, kv |-> <<>>]

DateV(iso) == [t |-> "date", s |-> iso, kv |-> <<>>]

ObjV(kv) == [t |-> "obj", s |-> <<>>, kv |-> kv]

ArrV(kv) == [t |-> "arr", s |-> <<>>, kv |-> kv]

UndefBody == [t |-> "undefined", s |-> <<>>, kv |-> <<>>]

NullBody == [t |-> "null", s |-> <<>>, kv |-> <<>>]

Quoted(s) == <<"\"">> \o s \o <<"\"">>

RECURSIVE JSONText(_)
\* The text JSON.stringify gives for a string, a Date, an object or an array.
JSONText(v) ==
  CASE v.t \in {"str", "date"} -> Quoted(v.s)
    [] v.t = "null" -> <<"n", "u", "l", "l">>
    [] v.t = "arr" ->
         <<"[">> \o Join([i \in 1..Len(v.kv) |-> JSONText(v.kv[i].v)], <<",">>)
                 \o <<"]">>
    [] OTHER ->
         <<"{">> \o Join([i \in 1..Len(v.kv) |->
                            Quoted(v.kv[i].k) \o <<":">> \o JSONText(v.kv[i].v)],
                         <<",">>)
                 \o <<"}">>

\* What fetch is given as the body: nothing (undefined or null), a JSON
\* text, a FormData with its entries in append order, or the object as is.
NoBody(t) == [enc |-> t, text |-> <<>>, entries |-> <<>>, raw |-> UndefBody]

JsonBody(text) ==
  [enc |-> "json", text |-> text, entries |-> <<>>, raw |-> UndefBody]

FormBody(entries) ==
  [enc |-> "formdata", text |-> <<>>, entries |-> entries, raw |-> UndefBody]

RawBody(v) == [enc |-> "raw", text |-> <<>>, entries |-> <<>>, raw |-> v]

\* JSON.stringify(body): undefined for undefined, a text otherwise.
JSONStringify(body) ==
  IF body.t = "undefined" THEN NoBody("undefined") ELSE JsonBody(JSONText(body))

\* !value for a body value: the empty string is the falsy one here.
Falsy(v) == v.t \in {"undefined", "null"} \/ (v.t = "str" /\ v.s = <<>>)

RECURSIVE transformToFormData(_, _, _)
\* The entries transformToFormData appends for body under namespace ns
\* (hasNs = FALSE: no namespace).
transformToFormData(body, hasNs, ns) ==
  Flatten([i \in 1..Len(body.kv) |->
    LET property == body.kv[i].k
        value == body.kv[i].v
        formKey == IF hasNs /\ ns # <<>>
                   THEN IF body.t = "arr" THEN ns \o <<"[", "]">>
                        ELSE ns \o <<"[">> \o property \o <<"]">>
                   ELSE property
    IN  IF Falsy(value) THEN <<>>
        ELSE IF value.t = "date" THEN <<[k |-> formKey, v |-> value.s]>>
        ELSE IF value.t \in {"obj", "arr"}
             THEN transformToFormData(value, TRUE, formKey)
             ELSE <<[k |-> formKey, v |-> value.s]>>])

\* resolveRequestBody(body, options): options is the per-call argument.
resolveRequestBody(body, options) ==
  IF options.given
  THEN IF body.t \notin {"undefined", "null"}
       THEN IF options.contentType = "form"
            THEN FormBody(transformToFormData(body, FALSE, <<>>))
            ELSE IF options.contentType = "json" THEN JSONStringify(body)
            ELSE IF options.contentType # "absent" THEN RawBody(body)
            ELSE JSONStringify(body)
       ELSE NoBody(body.t)
  ELSE JSONStringify(body)

\* ------------------------------------------------------------- request URL
\* A string that may be null or undefined.
NoString == [def |-> FALSE, s |-> <<>>]

Str(s) == [def |-> TRUE, s |-> s]

\* resolveRequestUrl without the check of lines 213-215: a missing base path
\* is concatenated like any other value.
resolveRequestUrlUnchecked(base, url, o) ==
  [threw |-> FALSE,
   url |-> CollapseSlashes(
             (IF base.def THEN base.s ELSE <<"n", "u", "l", "l">>)
               \o <<"/">> \o url
               \o (IF o.trailingSlash = "true" THEN <<"/">> ELSE <<>>))]

\* resolveRequestUrl(url, o) with this.baseUrl = base: throws when base is
\* null or undefined.
resolveRequestUrl(base, url, o) ==
  IF ~base.def THEN [threw |-> TRUE, url |-> <<>>]
  ELSE [threw |-> FALSE,
        url |-> CollapseSlashes(
                  base.s \o <<"/">> \o url
                    \o (IF o.trailingSlash = "true" THEN <<"/">> ELSE <<>>))]

\* createRequestOptions(method, mergedOptions, body): the RequestInit.
createRequestOptions(method, mergedOptions, body) ==
  [method |-> method, headers |-> mergedOptions.headers, body |-> body]

NoRequestOptions == createRequestOptions("", NoOptions, NoBody("undefined"))

\* createRequest(data) on a resource with this.baseUrl = base and
\* this.defaultOptions = defaults.
createRequest(base, defaults, method, url, options, body, tz) ==
  LET mergedOptions == resolveRequestOptions(defaults, options)
      resolved == resolveRequestUrl(base, url, mergedOptions)
      decodedBody == resolveRequestBody(body, options)
      requestOptions == createRequestOptions(method, mergedOptions, decodedBody)
      query == getQueryString(
                 IF options.given /\ options.queryParams.has
                 THEN options.queryParams.params ELSE <<>>,
                 options, defaults, tz)
  IN  IF resolved.threw
      THEN [threw |-> TRUE, requestUrl |-> <<>>,
            requestOptions |-> NoRequestOptions]
      ELSE [threw |-> FALSE,
            requestUrl |-> Join(FilterBoolean(<<resolved.url, query>>), <<"?">>),
            requestOptions |-> requestOptions]

\* ---------------------------------------------------------------- response
\* A value a promise settles with or a hook is given: a parsed body (t is
\* what it is: "object", "array", "string", "number" or "null"), with the
\* _status property once it has been assigned, or an error (t = "error").
Value(t, id) == [t |-> t, id |-> id, hasStatus |-> FALSE, status |-> 0]

NoValue == Value("none", "")

ErrorValue(id) == Value("error", id)

\* typeof data === 'object': true of objects, of arrays and of null.
TypeofObject(data) == data.t \in {"object", "array", "null"}

\* attachStatus without the typeof test: _status is put on every body.
attachStatusAlways(data, status) ==
  IF data.t = "null"
  THEN [threw |-> TRUE, data |-> ErrorValue("TypeError")]
  ELSE [threw |-> FALSE,
        data |-> [data EXCEPT !.hasStatus = TRUE, !.status = status]]

\* Lines 126-128: Object.assign(data, { _status: response.status }) when
\* typeof data is 'object'.  Object.assign throws a TypeError on null.
attachStatus(data, status) ==
  IF TypeofObject(data)
  THEN IF data.t = "null"
       THEN [threw |-> TRUE, data |-> ErrorValue("TypeError")]
       ELSE [threw |-> FALSE,
             data |-> [data EXCEPT !.hasStatus = TRUE, !.status = status]]
  ELSE [threw |-> FALSE, data |-> data]

\* response.ok: the status is in 200..299.
ResponseOk(status) == status >= 200 /\ status <= 299

\* extractResponseContent(response.clone()): the body parsed as JSON or read
\* as text; parsing a body that is no JSON throws.
extractResponseContent(content) ==
  IF content.t = "unparsable"
  THEN [threw |-> TRUE, data |-> ErrorValue("SyntaxError")]
  ELSE [threw |-> FALSE, data |-> content]

\* ------------------------------------------------------------- model inputs
Methods == {"GET", "POST", "PUT", "PATCH", "DELETE"}

sApi == <<"/", "a", "/">>

sV2 == <<"/", "b">>

sU == <<"u">>

HeadersX1 == [has |-> TRUE, map |-> {<<"X", "1">>}]

\* The argument of the setHeaders calls.
SetterHeaders == {HeadersX1}

HeadersZ9 == [has |-> TRUE, map |-> {<<"Z", "9">>}]

\* The stored options a constructor call may leave: DefaultFetchOptions
\* overlaid with the constructor's defaultOptions argument.
InitialOptions ==
  { [EmptyOptions EXCEPT !.contentType = ct, !.canSendRequest = gate,
                         !.handleError = hook, !.trailingSlash = "false",
                         !.queryParamsDecodeMode = "comma",
                         !.timeOffset = "false"] :
      ct \in {"json", "form"}, gate \in {"absent", "hook"},
      hook \in {"absent", "hook"} }

\* Per-call options of the verb calls.
CallOptions ==
  { NoOptions,
    [EmptyOptions EXCEPT !.headers = HeadersZ9],
    [EmptyOptions EXCEPT !.contentType = "form"],
    [EmptyOptions EXCEPT !.contentType = "other", !.trailingSlash = "true"] }

CallBodies == { UndefBody, ObjV(<<[k |-> <<"a">>, v |-> StrV(<<"1">>)]>>) }

CallQueryParams ==
  { NoQueryParams,
    [has |-> TRUE,
     params |-> <<[k |-> <<"a">>, v |-> ArrayOf(<<<<"1">>, <<"2">>>>)]>>] }

Statuses == {200, 404}

\* What the body of a response may parse to.
Contents ==
  { Value("object", "o"), Value("string", "s"), Value("null", ""),
    Value("unparsable", "") }

\* What the promise of canSendRequest() may settle with.
GateAnswers ==
  { [settled |-> "resolved", can |-> TRUE, error |-> NoValue],
    [settled |-> "resolved", can |-> FALSE, error |-> ErrorValue("denied")],
    [settled |-> "rejected", can |-> FALSE, error |-> ErrorValue("hookFailed")] }

\* Minutes new Date().getTimezoneOffset() may return.
Zones == {0, 300}

\* -------------------------------------------------------------------- state
\* call: the verb call under observation.
\*   pc        "none"      no verb has been called
\*             "thrown"    the verb threw before returning a promise
\*             "gate"      awaiting canSendRequest()
\*             "fetching"  fetchClient was called, its promise is pending
\*             "parsing"   awaiting extractResponseContent
\*             "settled"   resolve or reject was called
\*             "abandoned" the executor threw: nothing will settle the promise
\*   promise   "none", "pending", "resolved", "rejected", with its value
\*   fetchCount, fetchUrl, fetchOptions   the calls of fetchClient
\*   hookCount, hookResponse, hookBody, hookWhen   the calls of handleError
\*   method, url, options, body   the arguments createRequest was given
\*   tz   what getTimezoneOffset() returned during the call
\*   status, content, parsed   the response and what its body parsed to
\*   gate, gateError   what the promise of canSendRequest() settled with
\*   base, defaults   this.baseUrl and this.defaultOptions when the verb ran
\*   setBasePathCalled   whether setBasePath had been called by then
\* basePathSet: whether setBasePath has been called on the resource.
NoCall ==
  [pc |-> "none", method |-> "", url |-> <<>>, options |-> NoOptions,
   body |-> UndefBody, tz |-> 0, base |-> NoString, defaults |-> NoOptions,
   setBasePathCalled |-> FALSE,
   requestUrl |-> <<>>, requestOptions |-> NoRequestOptions,
   promise |-> "none", value |-> NoValue,
   gate |-> "none", gateError |-> NoValue,
   fetchCount |-> 0, fetchUrl |-> <<>>, fetchOptions |-> NoRequestOptions,
   status |-> 0, content |-> NoValue, parsed |-> NoValue,
   hookCount |-> 0, hookStatus |-> 0, hookBody |-> NoValue,
   hookWhen |-> "none"]

\* last: the latest call of getQueryString, resolveDestination or
\* getAllEntities, with its arguments and what it returned.
Last(op) ==
  [op |-> op, params |-> <<>>, options |-> NoOptions, tz |-> 0,
   parts |-> <<>>, basePath |-> <<>>, result |-> <<>>]

Init ==
  /\ baseUrl \in {NoString, Str(sApi)}
  /\ defaultOptions \in InitialOptions
  /\ call = NoCall
  /\ last = Last("constructor")
  /\ basePathSet = FALSE

\* ------------------------------------------------------------------ setters
\* Object.assign({}, this.defaultOptions.headers, headers)
AssignHeaders(old, headers) ==
  [has |-> TRUE,
   map |-> headers.map \cup
           {p \in old.map : ~\E q \in headers.map : q[1] = p[1]}]

setHeaders(headers) ==
  /\ defaultOptions' =
       [defaultOptions EXCEPT
          !.headers = AssignHeaders(defaultOptions.headers, headers)]
  /\ UNCHANGED <<baseUrl, call, last, basePathSet>>

clearHeaders ==
  /\ defaultOptions' = [defaultOptions EXCEPT !.headers = NoHeaders]
  /\ UNCHANGED <<baseUrl, call, last, basePathSet>>

setBasePath(b) ==
  /\ baseUrl' = Str(b)
  /\ basePathSet' = TRUE
  /\ UNCHANGED <<defaultOptions, call, last>>

\* ------------------------------------------------------------ fetchHandleCode
\* A settled promise stays as it is; a pending one takes the value.
Settle(c, how, value) ==
  IF c.promise = "pending"
  THEN [c EXCEPT !.pc = "settled", !.promise = how, !.value = value]
  ELSE [c EXCEPT !.pc = "settled"]

\* fetchArguments building the request when it is sent, from the base path
\* and the stored options of that moment.
fetchArgumentsAtSend(c, base, defaults) ==
  LET req == createRequest(base, defaults, c.method, c.url, c.options,
                           c.body, c.tz)
  IN  [url |-> req.requestUrl, options |-> req.requestOptions]

\* The arguments of this.fetchClient(url, options) at line 123: the url and
\* options parameters of fetchHandleCode, built when the verb was called.
\* base and defaults are this.baseUrl and this.defaultOptions at line 123.
fetchArguments(c, base, defaults) ==
  [url |-> c.requestUrl, options |-> c.requestOptions]

\* Line 123: this.fetchClient(url, options).
IssueFetch(c, base, defaults) ==
  LET args == fetchArguments(c, base, defaults)
  IN  [c EXCEPT !.pc = "fetching", !.fetchCount = @ + 1,
                !.fetchUrl = args.url, !.fetchOptions = args.options]

\* gateVerdict ignoring can: the request is sent whenever the hook's promise
\* resolved.
gateVerdictIgnoringCan(answer) ==
  IF answer.settled = "resolved" THEN "send" ELSE "throw"

\* Lines 118-121, after the await: "send" when the hook's promise resolved
\* with a truthy can; otherwise the executor throws (the hook's error, or
\* what the hook's promise was rejected with).
gateVerdict(answer) ==
  IF answer.settled = "resolved" /\ answer.can THEN "send" ELSE "throw"

\* What the promise of canSendRequest() settled with.
GateOutcome(answer) ==
  IF answer.settled # "resolved" THEN "failed"
  ELSE IF answer.can THEN "allowed" ELSE "denied"

\* Lines 116-123 from the await on.  The executor is an async function: what
\* it throws rejects the promise the executor itself returns, which nobody
\* holds, and neither resolve nor reject of the promise handed to the caller
\* is called.
afterGate(c, answer, base, defaults) ==
  LET answered == [c EXCEPT !.gate = GateOutcome(answer),
                            !.gateError = answer.error]
  IN  IF gateVerdict(answer) = "send"
      THEN IssueFetch(answered, base, defaults)
      ELSE [answered EXCEPT !.pc = "abandoned"]

\* Lines 115-123 up to the first await: the executor runs inside the Promise
\* constructor.
startFetchHandleCode(c, base, defaults) ==
  IF defaults.canSendRequest # "absent"
  THEN [c EXCEPT !.pc = "gate", !.promise = "pending", !.gate = "asked"]
  ELSE IssueFetch([c EXCEPT !.promise = "pending"], base, defaults)

\* Lines 125-136 after extractResponseContent has settled, with the .catch of
\* lines 138-140 for what the callback throws.  handleError is taken to
\* return normally.
afterParse(c, defaults) ==
  LET ex == extractResponseContent(c.content)
      at == attachStatus(ex.data, c.status)
  IN  IF ex.threw THEN Settle(c, "rejected", ex.data)
      ELSE IF at.threw THEN Settle([c EXCEPT !.parsed = ex.data], "rejected", at.data)
      ELSE IF ResponseOk(c.status)
           THEN Settle([c EXCEPT !.parsed = ex.data], "resolved", at.data)
           ELSE IF defaults.handleError # "absent"
                THEN Settle([c EXCEPT !.parsed = ex.data,
                                      !.hookCount = @ + 1,
                                      !.hookStatus = c.status,
                                      !.hookBody = at.data,
                                      !.hookWhen = c.promise],
                            "rejected", at.data)
                ELSE Settle([c EXCEPT !.parsed = ex.data], "rejected", at.data)

\* storedAfterRequest had resolveRequestOptions merged in place,
\* Object.assign(this.defaultOptions, options).
storedAfterAssign(defaults, options) == SpreadOptions(defaults, options)

\* this.defaultOptions once createRequest has returned: resolveRequestOptions
\* and getQueryString spread it into fresh objects and write to none of its
\* properties.
storedAfterRequest(defaults, options) == defaults

\* --------------------------------------------------------------------- verbs
\* One verb call is followed from its start to its end.
NotCalled == call.pc = "none"

\* The body shared by post, put, patch, get and delete: createRequest, then
\* fetchHandleCode.
Request(method, url, options, body, tz) ==
  LET req == createRequest(baseUrl, defaultOptions, method, url, options, body, tz)
      c0 == [NoCall EXCEPT !.method = method, !.url = url,
                           !.options = options, !.body = body, !.tz = tz,
                           !.base = baseUrl, !.defaults = defaultOptions,
                           !.setBasePathCalled = basePathSet,
                           !.requestUrl = req.requestUrl,
                           !.requestOptions = req.requestOptions]
  IN  /\ call' = IF req.threw THEN [c0 EXCEPT !.pc = "thrown"]
                 ELSE startFetchHandleCode(c0, baseUrl, defaultOptions)
      /\ defaultOptions' = storedAfterRequest(defaultOptions, options)
      /\ UNCHANGED <<baseUrl, last, basePathSet>>

post(url, body, options, tz) ==
  /\ NotCalled
  /\ Request("POST", url, options, body, tz)

put(url, body, options, tz) ==
  /\ NotCalled
  /\ Request("PUT", url, options, body, tz)

patch(url, body, options, tz) ==
  /\ NotCalled
  /\ Request("PATCH", url, options, body, tz)

delete(url, body, options, tz) ==
  /\ NotCalled
  /\ Request("DELETE", url, options, body, tz)

\* get passes { ...options, queryParams } and no body.
get(url, queryParams, options, tz) ==
  /\ NotCalled
  /\ Request("GET", url,
             [(IF options.given THEN options ELSE EmptyOptions)
                EXCEPT !.queryParams = queryParams],
             UndefBody, tz)

\* ------------------------------------------------- the request's later steps
\* The promise of canSendRequest() settles.
GateAnswered(answer) ==
  /\ call.pc = "gate"
  /\ call' = afterGate(call, answer, baseUrl, defaultOptions)
  /\ UNCHANGED <<baseUrl, defaultOptions, last, basePathSet>>

\* The fetch promise resolves with a response: the .then callback starts and
\* awaits extractResponseContent.
FetchResponded(status, content) ==
  /\ call.pc = "fetching"
  /\ call' = [call EXCEPT !.pc = "parsing", !.status = status,
                          !.content = content]
  /\ UNCHANGED <<baseUrl, defaultOptions, last, basePathSet>>

\* The fetch promise rejects: lines 138-140.
FetchFailed ==
  /\ call.pc = "fetching"
  /\ call' = Settle(call, "rejected", ErrorValue("network"))
  /\ UNCHANGED <<baseUrl, defaultOptions, last, basePathSet>>

ContentExtracted ==
  /\ call.pc = "parsing"
  /\ call' = afterParse(call, defaultOptions)
  /\ UNCHANGED <<baseUrl, defaultOptions, last, basePathSet>>

\* ------------------------------------------------- calls without a request
getQueryStringCall(params, options, tz) ==
  /\ last' = [Last("getQueryString") EXCEPT
                !.params = params, !.options = options, !.tz = tz,
                !.result = getQueryString(params, options, defaultOptions, tz)]
  /\ UNCHANGED <<baseUrl, defaultOptions, call, basePathSet>>

resolveDestinationCall(pathParts, basePath) ==
  /\ last' = [Last("resolveDestination") EXCEPT
                !.parts = pathParts, !.basePath = basePath,
                !.result = resolveDestination(pathParts, basePath)]
  /\ UNCHANGED <<baseUrl, defaultOptions, call, basePathSet>>

\* getAllEntities returns a promise rejected with an Error.
getAllEntities ==
  /\ last' = Last("getAllEntities")
  /\ UNCHANGED <<baseUrl, defaultOptions, call, basePathSet>>

\* --------------------------------------------------------- the resource
Next ==
  \/ \E h \in SetterHeaders : setHeaders(h)
  \/ clearHeaders
  \/ setBasePath(sV2)
  \/ \E o \in CallOptions, b \in CallBodies : post(sU, b, o, 0)
  \/ \E o \in CallOptions, b \in CallBodies : put(sU, b, o, 0)
  \/ \E o \in CallOptions, b \in CallBodies : patch(sU, b, o, 0)
  \/ \E o \in CallOptions, b \in CallBodies : delete(sU, b, o, 0)
  \/ \E o \in CallOptions, q \in CallQueryParams : get(sU, q, o, 0)
  \/ \E a \in GateAnswers : GateAnswered(a)
  \/ \E st \in Statuses, ct \in Contents : FetchResponded(st, ct)
  \/ FetchFailed
  \/ ContentExtracted
  \/ \E q \in CallQueryParams, o \in {NoOptions} :
       getQueryStringCall(q.params, o, 0)
  \/ resolveDestinationCall(<<sU, <<"5">>>>, sApi)
  \/ getAllEntities

Spec == Init /\ [][Next]_vars

\* ------------------------------------------ getQueryString on drawn inputs
\* Sequences over S of length at most n.
SeqsUpTo(S, n) == UNION {[1..k -> S] : k \in 0..n}

ParamKeys == {<<"a">>, <<"b">>, <<"k", " ", "s">>}

ArrayElements == {<<"1">>, <<"a", "&", "b">>}

ParamValues ==
  {NullValue, UndefValue, Scalar(<<"x", " ", "y">>)}
    \cup {ArrayOf(a) : a \in SeqsUpTo(ArrayElements, MaxArrayLen)}

\* The params objects: distinct keys in Object.keys order.
ParamObjects ==
  {p \in SeqsUpTo([k : ParamKeys, v : ParamValues], MaxParams) :
     \A i, j \in 1..Len(p) : i # j => p[i].k # p[j].k}

QueryOptions ==
  { NoOptions,
    [EmptyOptions EXCEPT !.queryParamsDecodeMode = "array"],
    [EmptyOptions EXCEPT !.queryParamsDecodeMode = "comma"],
    [EmptyOptions EXCEPT !.timeOffset = "true"] }

QueryDefaults ==
  { [EmptyOptions EXCEPT !.queryParamsDecodeMode = m, !.timeOffset = "false"] :
      m \in {"absent", "comma", "array"} }

InitQuery ==
  /\ baseUrl = Str(sApi)
  /\ defaultOptions \in QueryDefaults
  /\ call = NoCall
  /\ basePathSet = FALSE
  /\ \E o \in QueryOptions :
       last \in {[Last("arguments") EXCEPT !.params = p, !.options = o, !.tz = z] :
                   p \in ParamObjects,
                   z \in IF o.timeOffset = "true" THEN Zones ELSE {0}}

NextQuery ==
  /\ last.op = "arguments"
  /\ getQueryStringCall(last.params, last.options, last.tz)

SpecQuery == InitQuery /\ [][NextQuery]_vars

\* -------------------------------------- resolveDestination on drawn inputs
PathParts == {<<"u">>, <<"5">>, <<"x", "/">>}

BasePaths ==
  { <<>>, <<"/">>, <<"/", "a">>, <<"/", "a", "/">>,
    <<"h", ":", "/", "/", "x">>, <<"h", ":", "/", "/", "x", "/">> }

InitDest ==
  /\ baseUrl = Str(sApi)
  /\ defaultOptions \in QueryDefaults
  /\ call = NoCall
  /\ basePathSet = FALSE
  /\ last \in {[Last("arguments") EXCEPT !.parts = p, !.basePath = b] :
                 p \in SeqsUpTo(PathParts, MaxParts), b \in BasePaths}

NextDest ==
  /\ last.op = "arguments"
  /\ resolveDestinationCall(last.parts, last.basePath)

SpecDest == InitDest /\ [][NextDest]_vars

\* ================================================================ properties
\* A response has arrived and its body has been dealt with.
ResponseHandled == call.pc = "settled" /\ call.status # 0

\* The body of the response was parsed (extractResponseContent returned).
BodyParsed == call.parsed.t # "none"

\* The parsed body as a settled value carries it: the same body, with _status
\* when assigned.
SameBody(value, parsed) == value.t = parsed.t /\ value.id = parsed.id

\* C1: when the gating hook resolves with can = false, the promise the verb
\* returned is rejected with the error the hook supplied.
C1_GateDenialRejects ==
  call.gate = "denied" =>
    call.promise = "rejected" /\ call.value = call.gateError

\* C2: a response with a non-success status rejects the promise with the
\* parsed body, the error hook (when configured) having been invoked exactly
\* once before, with the raw response and the parsed body; the hook is never
\* invoked for a success status.
C2_ErrorStatusRejectsWithBody ==
  /\ (ResponseHandled /\ BodyParsed /\ ~ResponseOk(call.status)) =>
       /\ call.promise = "rejected"
       /\ SameBody(call.value, call.parsed)
       /\ call.defaults.handleError # "absent" =>
            /\ call.hookCount = 1
            /\ call.hookWhen = "pending"
            /\ call.hookStatus = call.status
            /\ SameBody(call.hookBody, call.parsed)
       /\ call.defaults.handleError = "absent" => call.hookCount = 0
  /\ (call.status # 0 /\ ResponseOk(call.status)) => call.hookCount = 0

\* C3: on a success status an object body resolves the promise as that
\* object with _status set to the response's status, a string body resolves
\* it unchanged, and _status is only ever set on an object.
C3_StatusOnObjectsOnly ==
  /\ (ResponseHandled /\ ResponseOk(call.status) /\ call.parsed.t = "object") =>
       /\ call.promise = "resolved"
       /\ SameBody(call.value, call.parsed)
       /\ call.value.hasStatus /\ call.value.status = call.status
  /\ (ResponseHandled /\ ResponseOk(call.status) /\ call.parsed.t = "string") =>
       /\ call.promise = "resolved"
       /\ call.value = call.parsed
       /\ ~call.value.hasStatus
  /\ call.value.hasStatus => call.parsed.t \in {"object", "array"}

C3_ObjectResolvedWithStatus ==
  /\ ResponseHandled /\ call.status = 200 /\ call.parsed.t = "object"
  /\ call.promise = "resolved" /\ call.value.status = 200

\* C4 as stated: a verb called before setBasePath has been called throws
\* synchronously and issues no HTTP call.
C4_ThrowsBeforeSetBasePath ==
  (call.pc # "none" /\ ~call.setBasePathCalled) =>
    call.pc = "thrown" /\ call.promise = "none" /\ call.fetchCount = 0

\* C4 amended: a verb called while the resource has no base URL (none given
\* to the constructor, none set since) throws synchronously, returns no
\* promise and issues no HTTP call.
C4_ThrowsWithoutBaseUrl ==
  (call.pc # "none" /\ ~call.base.def) =>
    call.pc = "thrown" /\ call.promise = "none" /\ call.fetchCount = 0

C4_ThrownWithoutBaseUrl == call.pc = "thrown" /\ ~call.base.def

\* The content type in force for the call: the per-call one when given, the
\* stored default otherwise.
EffectiveContentType ==
  IF call.options.given /\ call.options.contentType # "absent"
  THEN call.options.contentType ELSE call.defaults.contentType

\* C5: the body is encoded by the content type in force, per-call over
\* stored default: JSON text for JSON, a multipart form for form-data, the
\* object as it is otherwise.
C5_BodyFollowsEffectiveContentType ==
  (call.pc \notin {"none", "thrown"} /\ call.body.t = "obj") =>
    call.requestOptions.body.enc =
      (CASE EffectiveContentType = "json" -> "json"
         [] EffectiveContentType = "form" -> "formdata"
         [] OTHER -> "raw")

\* The pairs one parameter contributes to the query string.
ParamPairs(p, mode) ==
  CASE p.v.t = "array" /\ mode = "array" ->
         [i \in 1..Len(p.v.a) |->
            encodeURIComponent(p.k) \o <<"[", "]", "=">>
              \o encodeURIComponent(p.v.a[i])]
    [] p.v.t = "array" /\ mode # "array" ->
         <<encodeURIComponent(p.k) \o <<"=">> \o Join(p.v.a, <<",">>)>>
    [] p.v.t = "scalar" ->
         <<encodeURIComponent(p.k) \o <<"=">> \o encodeURIComponent(p.v.s)>>
    [] OTHER -> <<>>

\* The mode and the time-offset flag in force for the latest getQueryString
\* call: per-call over stored default, comma when no mode is configured.
QueryMode ==
  LET m == IF last.options.given /\ last.options.queryParamsDecodeMode # "absent"
           THEN last.options.queryParamsDecodeMode
           ELSE defaultOptions.queryParamsDecodeMode
  IN  IF m = "absent" THEN "comma" ELSE m

QueryTimeOffset ==
  IF last.options.given /\ last.options.timeOffset # "absent"
  THEN last.options.timeOffset = "true"
  ELSE defaultOptions.timeOffset = "true"

\* Every segment between "&"s of s is non-empty, and s has no leading "?".
NoEmptySegment(s) ==
  s # <<>> =>
    /\ s[1] \notin {"?", "&"}
    /\ s[Len(s)] # "&"
    /\ \A i \in 1..(Len(s) - 1) : ~(s[i] = "&" /\ s[i + 1] = "&")

\* C6: the query string is the pairs of the parameters in order, joined by
\* "&": an array is one k=v1,...,vn pair in comma mode (the mode in force
\* when none is configured) and n pairs k[]=vi in array mode, a scalar is an
\* encoded k=v pair, null and undefined give no pair; there is no leading
\* "?" and no empty segment.
C6_QueryStringEncoding ==
  last.op = "getQueryString" =>
    LET params == IF QueryTimeOffset
                  THEN Append(last.params,
                              [k |-> timeoffsetKey,
                               v |-> Scalar(IntToStr(0 - last.tz))])
                  ELSE last.params
    IN  /\ last.result =
             Join(Flatten([i \in 1..Len(params) |->
                             ParamPairs(params[i], QueryMode)]), <<"&">>)
        /\ NoEmptySegment(last.result)

C6_ArrayEncodedInArrayMode ==
  /\ last.op = "getQueryString"
  /\ QueryMode = "array"
  /\ \E i \in 1..Len(last.params) :
       last.params[i].v.t = "array" /\ Len(last.params[i].v.a) = 2
  /\ \E i \in 1..Len(last.params) : last.params[i].v.t = "null"

RECURSIVE Squeeze(_)
\* s with every run of slashes shortened to one slash.
Squeeze(s) ==
  IF Len(s) < 2 THEN s
  ELSE IF s[1] = "/" /\ s[2] = "/" THEN Squeeze(Tail(s))
  ELSE <<s[1]>> \o Squeeze(Tail(s))

\* s has no "//" other than directly after a ":".
NoDoubledSlash(s) ==
  \A i \in 1..(Len(s) - 1) :
    (s[i] = "/" /\ s[i + 1] = "/") => (i > 1 /\ s[i - 1] = ":")

\* C7: resolveDestination returns the base path followed by the parts joined
\* with "/", with no doubled slash other than the one after a ":".
C7_DestinationHasNoDoubledSlash ==
  last.op = "resolveDestination" =>
    /\ NoDoubledSlash(last.result)
    /\ Squeeze(last.result) =
         Squeeze(IF last.parts = <<>> THEN last.basePath
                 ELSE last.basePath \o <<"/">> \o Join(last.parts, <<"/">>))

\* A step of one of the three setters.
SetterStep ==
  \/ \E h \in SetterHeaders : setHeaders(h)
  \/ clearHeaders
  \/ setBasePath(sV2)

\* C8: the stored options and the base URL change only in a step of
\* setHeaders, clearHeaders or setBasePath: no verb, no later step of a
\* request, and none of getQueryString, resolveDestination and
\* getAllEntities changes them.
C8_OnlySettersChangeStoredState ==
  [][(baseUrl' # baseUrl \/ defaultOptions' # defaultOptions) => SetterStep]_vars

C8_RequestEndedStoredStateKept ==
  /\ call.pc = "settled"
  /\ call.options.given /\ call.options.contentType # "absent"
  /\ call.options.contentType # call.defaults.contentType
  /\ defaultOptions = call.defaults
  /\ baseUrl = call.base

\* C9: with a gating hook configured the HTTP call is issued at most once
\* and only after the hook reported can = true; when it reported can = false
\* the HTTP call is never issued and the error hook is not invoked.
C9_FetchOnlyAfterGateAllows ==
  (call.pc \notin {"none", "thrown"} /\ call.defaults.canSendRequest # "absent") =>
    /\ call.fetchCount <= 1
    /\ call.fetchCount = 1 => call.gate = "allowed"
    /\ call.gate = "denied" => call.fetchCount = 0 /\ call.hookCount = 0

C9_DeniedNothingSent ==
  call.gate = "denied" /\ call.pc = "abandoned" /\ call.fetchCount = 0

\* The headers a request built from the stored options of the call's moment
\* carries: the per-call ones when given, the stored ones otherwise.
HeadersAtCall ==
  IF call.options.given /\ call.options.headers.has
  THEN call.options.headers ELSE call.defaults.headers

\* C10: the URL and the headers handed to the HTTP call are those built from
\* the base path and the stored headers of the moment the verb was called,
\* whatever setBasePath, setHeaders or clearHeaders did since.
C10_RequestUsesStateAtCall ==
  call.fetchCount >= 1 =>
    /\ call.fetchUrl =
         createRequest(call.base, call.defaults, call.method, call.url,
                       call.options, call.body, call.tz).requestUrl
    /\ call.fetchOptions.headers = HeadersAtCall

C10_SentAfterSettersRan ==
  /\ call.fetchCount = 1
  /\ call.gate = "allowed"
  /\ baseUrl # call.base
  /\ defaultOptions.headers # call.defaults.headers
  /\ ~call.options.headers.has

====
